---------------------------- MODULE Spec2Model ----------------------------
(***************************************************************************)
(* Model of the cleaning-and-gap-classification pipeline of                *)
(* data_cleaning.py: the batch loop of main, the steps of                  *)
(* clean_transform_pipeline and the functions they call.                   *)
(*                                                                         *)
(* Time is counted in whole seconds since 1970-01-01 00:00 UTC (a          *)
(* Thursday); a pd.Timedelta is a number of seconds.  Prices are integers  *)
(* (ticks of 0.1), NaN is a sentinel outside the price range and every     *)
(* comparison with it is false, as in pandas.                              *)
(***************************************************************************)
EXTENDS Integers, Sequences, FiniteSets, TLC

VARIABLES
    fi,              \* number of files the batch loop has taken so far
    pc,              \* position of main / clean_transform_pipeline
    cols,            \* columns of the frame read from the current file
    raw,             \* rows of the current file, in file order
    df,              \* the frame the pipeline is transforming
    short_gaps,      \* result of the first detect_missing_periods call
    long_gaps,       \* result of the second detect_missing_periods call
    invalid_blocks,  \* result of detect_invalid_blocks
    saved,           \* number of files whose four artifacts were written
    error,           \* exception that ended the run, "none" while running
    min_block        \* minimum duration detect_invalid_blocks is called with

vars ==
    <<fi, pc, cols, raw, df, short_gaps, long_gaps, invalid_blocks, saved, error, min_block>>

---------------------------------------------------------------------------
(* Configuration area of data_cleaning.py *)

Minute == 60
Hour == 60 * Minute
Day == 24 * Hour

EXPECTED_FREQ == 1 * Minute
MIN_SHORT_GAP == 1 * Minute
MAX_SHORT_GAP == 2 * Day
MIN_LONG_GAP == 2 * Day
MAX_LONG_GAP == 10 * Day
MAX_STALE_RUN == 60
APPLY_FX_SESSION_FILTER == TRUE
OHLC_COLS == {"open", "high", "low", "close"}

(* Values pandas produces for what it cannot parse or what is absent *)
NaT == -1
NaN == -1000

---------------------------------------------------------------------------
(* Bounds of the model *)

MaxFiles == 2      \* files one run of main processes
MaxBars == 4       \* rows of a file of well-formed bars
MaxRows == 3       \* rows of a file with malformed bars or timestamps
MaxSegs == 2       \* constant-close segments of a long file

---------------------------------------------------------------------------
(* Generic helpers *)

Max2(a, b) == IF a >= b THEN a ELSE b
Min2(a, b) == IF a <= b THEN a ELSE b

Range(s) == {s[i] : i \in 1..Len(s)}

SetMin(S) == CHOOSE x \in S : \A y \in S : x <= y

RECURSIVE Concat(_)
Concat(ss) == IF ss = <<>> THEN <<>> ELSE Head(ss) \o Concat(Tail(ss))

(* A column computed once: the sequence with the values of f *)
Col(f) == f \o <<>>

(* The positions of lo..hi that the mask holds, in increasing order (halving *)
(* keeps the recursion shallow on long frames)                               *)
RECURSIVE WhereIn(_, _, _)
WhereIn(mask, lo, hi) ==
    IF lo > hi THEN <<>>
    ELSE IF lo = hi THEN (IF lo \in mask THEN <<lo>> ELSE <<>>)
    ELSE LET mid == (lo + hi) \div 2
         IN  WhereIn(mask, lo, mid) \o WhereIn(mask, mid + 1, hi)

(* Rows of s at the positions the mask holds, in their order: df.loc[mask] *)
Loc(s, mask) ==
    LET w == WhereIn(mask, 1, Len(s))
    IN  [k \in 1..Len(w) |-> s[w[k]]]

(* NaN-aware comparisons: any comparison with NaN is False *)
IsNa(x) == x = NaN
Lt(a, b) == ~IsNa(a) /\ ~IsNa(b) /\ a < b
Gt(a, b) == ~IsNa(a) /\ ~IsNa(b) /\ a > b
Eq(a, b) == ~IsNa(a) /\ ~IsNa(b) /\ a = b

(* DataFrame.max(axis=1) / min(axis=1) of two columns: NaN is skipped *)
RowMax(a, b) == IF IsNa(a) THEN b ELSE IF IsNa(b) THEN a ELSE Max2(a, b)
RowMin(a, b) == IF IsNa(a) THEN b ELSE IF IsNa(b) THEN a ELSE Min2(a, b)

Ohlc(r) == <<r.open, r.high, r.low, r.close>>

(* Calendar fields of a UTC timestamp (ts.dt.weekday: Monday=0 ... Sunday=6) *)
weekday(ts) == ((ts \div Day) + 3) % 7
hour(ts) == (ts % Day) \div Hour
minute(ts) == (ts % Hour) \div Minute
floorD(ts) == ts \div Day

---------------------------------------------------------------------------
(* ensure_datetime_utc.  pd.to_datetime(errors="coerce") has already turned *)
(* what it cannot parse into NaT; dropna removes those rows and sort_values *)
(* orders the rest by time.  sort_values uses its default kind="quicksort", *)
(* which is not stable: rows with equal timestamps may come out in any      *)
(* order, so the result is one of SortOutcomes.                             *)

dropna(d) == Loc(d, {i \in 1..Len(d) : d[i].ts # NaT})

RECURSIVE SortOutcomesOf(_)
SortOutcomesOf(rows) ==
    IF rows = {} THEN {<<>>}
    ELSE LET m == SetMin({r.ts : r \in rows})
         IN  UNION {{<<r>> \o rest : rest \in SortOutcomesOf(rows \ {r})} :
                    r \in {x \in rows : x.ts = m}}

StrictlyIncreasing(d) == \A i \in 2..Len(d) : d[i - 1].ts < d[i].ts

(* a frame already in strict time order has one sorted arrangement: itself *)
SortOutcomes(d) == IF StrictlyIncreasing(d) THEN {d} ELSE SortOutcomesOf(Range(d))

ensure_datetime_utc(d) == SortOutcomes(dropna(d))

(* variant: only rows that repeat the prices as well as the timestamp are *)
(* dropped                                                                *)
drop_duplicate_rows(d) ==
    Loc(d, {i \in 1..Len(d) :
                ~\E j \in (i + 1)..Len(d) :
                    d[j].ts = d[i].ts /\ Ohlc(d[j]) = Ohlc(d[i])})

(* drop_duplicates(subset=[time_col], keep="last") *)
drop_duplicate_timestamps(d) ==
    Loc(d, {i \in 1..Len(d) : ~\E j \in (i + 1)..Len(d) : d[j].ts = d[i].ts})

(* ohlc_sanity_filter *)
invalid_zero(r) == \E x \in Range(Ohlc(r)) : Eq(x, 0)
invalid_neg(r) == \E x \in Range(Ohlc(r)) : Lt(x, 0)
(* variant: the check of low against open and close is left out *)
invalid_logic_high_only(r) ==
    \/ Lt(r.high, RowMax(r.open, r.close))
    \/ Lt(r.high, r.low)

invalid_logic(r) ==
    \/ Lt(r.high, RowMax(r.open, r.close))
    \/ Gt(r.low, RowMin(r.open, r.close))
    \/ Lt(r.high, r.low)

ohlc_invalid(r) == invalid_zero(r) \/ invalid_neg(r) \/ invalid_logic(r)

ohlc_sanity_filter(d) == Loc(d, {i \in 1..Len(d) : ~ohlc_invalid(d[i])})

(* remove_stale_quotes: same = close.eq(close.shift(1)), run_id = (~same).cumsum(), *)
(* run_len = size of the row's run, stale = same & (run_len >= max_run)             *)
same_as_prev(d, i) == i > 1 /\ Eq(d[i].close, d[i - 1].close)

(* variant: a run must be longer than max_run to count *)
stale_rows_longer_only(d, max_run) ==
    LET n == Len(d)
        same == Col([i \in 1..n |-> same_as_prev(d, i)])
        run_id == Col([i \in 1..n |-> Cardinality({j \in 1..i : ~same[j]})])
        run_len == Col([i \in 1..n |-> Cardinality({j \in 1..n : run_id[j] = run_id[i]})])
    IN  {i \in 1..n : same[i] /\ run_len[i] > max_run}

stale_rows(d, max_run) ==
    LET n == Len(d)
        same == Col([i \in 1..n |-> same_as_prev(d, i)])
        run_id == Col([i \in 1..n |-> Cardinality({j \in 1..i : ~same[j]})])
        run_len == Col([i \in 1..n |-> Cardinality({j \in 1..n : run_id[j] = run_id[i]})])
    IN  {i \in 1..n : same[i] /\ run_len[i] >= max_run}

remove_stale_quotes(d, max_run) ==
    LET stale == stale_rows(d, max_run)
    IN  Loc(d, (1..Len(d)) \ stale)

(* fx_session_filter_utc *)
in_week(ts) == weekday(ts) >= 0 /\ weekday(ts) <= 3
(* variant: the whole of Friday's hour 22 counts as active *)
is_fri_active_whole_hour(ts) == weekday(ts) = 4 /\ hour(ts) <= 22

is_fri_active(ts) ==
    weekday(ts) = 4 /\ (hour(ts) < 22 \/ (hour(ts) = 22 /\ minute(ts) = 0))
is_sun_active(ts) ==
    weekday(ts) = 6 /\ (hour(ts) > 22 \/ (hour(ts) = 22 /\ minute(ts) >= 0))
session_mask(ts) == in_week(ts) \/ is_fri_active(ts) \/ is_sun_active(ts)

fx_session_filter_utc(d) == Loc(d, {i \in 1..Len(d) : session_mask(d[i].ts)})

(* detect_missing_periods, on the frame s its sort_values produced *)
(* variant: the gap ends at the next present timestamp *)
Gap_end_at_next(prev_ts, next_ts) ==
    [gap_start |-> prev_ts + EXPECTED_FREQ,
     gap_end |-> next_ts,
     gap_duration_min |-> Max2(((next_ts - prev_ts) \div EXPECTED_FREQ) - 1, 0),
     gap_diff |-> next_ts - prev_ts]

(* variant: the bordering sample is counted among the missing ones *)
Gap_counting_border(prev_ts, next_ts) ==
    [gap_start |-> prev_ts + EXPECTED_FREQ,
     gap_end |-> next_ts - EXPECTED_FREQ,
     gap_duration_min |-> Max2((next_ts - prev_ts) \div EXPECTED_FREQ, 0),
     gap_diff |-> next_ts - prev_ts]

(* variant: the gap starts at the last present timestamp *)
Gap_start_at_prev(prev_ts, next_ts) ==
    [gap_start |-> prev_ts,
     gap_end |-> next_ts - EXPECTED_FREQ,
     gap_duration_min |-> Max2(((next_ts - prev_ts) \div EXPECTED_FREQ) - 1, 0),
     gap_diff |-> next_ts - prev_ts]

Gap(prev_ts, next_ts) ==
    [gap_start |-> prev_ts + EXPECTED_FREQ,
     gap_end |-> next_ts - EXPECTED_FREQ,
     gap_duration_min |-> Max2(((next_ts - prev_ts) \div EXPECTED_FREQ) - 1, 0),
     gap_diff |-> next_ts - prev_ts]

(* variant: the lower bound of the band is inclusive *)
in_band_closed(diff, min_gap, max_gap) == diff >= min_gap /\ diff <= max_gap

in_band(diff, min_gap, max_gap) == diff > min_gap /\ diff <= max_gap

detect_missing_periods(s, min_gap, max_gap) ==
    LET diff(i) == s[i].ts - s[i - 1].ts
        mp == WhereIn({i \in 2..Len(s) : in_band(diff(i), min_gap, max_gap)}, 2, Len(s))
    IN  [k \in 1..Len(mp) |-> Gap(s[mp[k] - 1].ts, s[mp[k]].ts)]

(* detect_invalid_blocks, on the frame s its sort_values produced *)
row_invalid(r) ==
    (\E x \in Range(Ohlc(r)) : IsNa(x)) \/ (\E x \in Range(Ohlc(r)) : Eq(x, 0))

(* variant: a change of calendar day does not start a block *)
new_block_ignoring_day(s, i) ==
    \/ i = 1
    \/ s[i].ts - s[i - 1].ts # EXPECTED_FREQ
    \/ row_invalid(s[i]) # row_invalid(s[i - 1])

new_block(s, i) ==
    \/ i = 1
    \/ floorD(s[i].ts) # floorD(s[i - 1].ts)
    \/ s[i].ts - s[i - 1].ts # EXPECTED_FREQ
    \/ row_invalid(s[i]) # row_invalid(s[i - 1])

block_id(s, i) == Cardinality({j \in 1..i : new_block(s, j)})

block_table(s) ==
    LET n == Len(s)
        bid == Col([i \in 1..n |-> block_id(s, i)])
        nb == IF n = 0 THEN 0 ELSE bid[n]
        first(b) == CHOOSE i \in 1..n : bid[i] = b /\ (i = 1 \/ bid[i - 1] # b)
        size(b) == Cardinality({i \in 1..n : bid[i] = b})
    IN  [b \in 1..nb |->
            [start |-> s[first(b)].ts,
             end |-> s[first(b) + size(b) - 1].ts,
             is_invalid |-> row_invalid(s[first(b)]),
             n_rows |-> size(b),
             duration |-> (s[first(b) + size(b) - 1].ts - s[first(b)].ts) + EXPECTED_FREQ]]

block_kept(b, min_dur) == b.is_invalid /\ b.duration >= min_dur

detect_invalid_blocks(s, min_dur) ==
    LET blocks == block_table(s)
    IN  Loc(blocks, {b \in 1..Len(blocks) : block_kept(blocks[b], min_dur)})

---------------------------------------------------------------------------
(* Input files.  A row carries the number of its line in the file, which no *)
(* step changes; a file is its columns and its rows in file order.          *)

Row(line, ts, ohlc) ==
    [line |-> line, ts |-> ts,
     open |-> ohlc[1], high |-> ohlc[2], low |-> ohlc[3], close |-> ohlc[4]]

Rows(tss, ohlcs) == [i \in 1..Len(tss) |-> Row(i, tss[i], ohlcs[i])]

ALL_COLS == {"time"} \cup OHLC_COLS

File(columns, rows) == [cols |-> columns, rows |-> rows]

(* Strictly increasing sequences of at most n members of S *)
RECURSIVE IncSeqs(_, _)
IncSeqs(S, n) ==
    IF n = 0 THEN {<<>>}
    ELSE {<<>>} \cup
         UNION {{<<x>> \o t : t \in IncSeqs({y \in S : y > x}, n - 1)} : x \in S}

SeqsUpTo(S, n) == UNION {[1..k -> S] : k \in 0..n}

(* Instants of the first weeks of 1970 *)
At(d, h, m) == d * Day + h * Hour + m * Minute
Fri2200 == At(1, 22, 0)
Fri2201 == At(1, 22, 1)
Sat1200 == At(2, 12, 0)
Sun2159 == At(3, 21, 59)
Sun2200 == At(3, 22, 0)
Sun2300 == At(3, 23, 0)
Mon0000 == At(4, 0, 0)
Mon2359 == At(4, 23, 59)
Tue0000 == At(5, 0, 0)

(* Files of well-formed bars with distinct closes, in time order: the       *)
(* session boundaries and every band of gap width.                          *)
CalendarTimes ==
    {Fri2200, Fri2201, Sat1200, Sun2159, Sun2200, Sun2300,
     Mon0000, Mon0000 + 30, Mon0000 + 60, Mon0000 + 90, Mon0000 + 120, Mon0000 + 180,
     Mon0000 + MAX_SHORT_GAP, Mon0000 + MAX_SHORT_GAP + 60,
     Mon0000 + MAX_LONG_GAP, Mon0000 + MAX_LONG_GAP + 60}

CalendarFiles ==
    {File(ALL_COLS, Rows(tss, [i \in 1..Len(tss) |-> <<10 + i, 10 + i, 10 + i, 10 + i>>])) :
        tss \in IncSeqs(CalendarTimes, MaxBars)}

(* Files of bars at and around nominal cadence, across a day change, whose  *)
(* OHLC fields are well-formed, zero, negative, inconsistent or missing.    *)
CadenceTimes == {Mon2359 - 60, Mon2359, Tue0000, Tue0000 + 120}

OhlcValues ==
    {<<10, 10, 10, 10>>, <<10, 12, 9, 11>>,
     <<0, 10, 0, 10>>, <<-1, 10, -2, 10>>,
     <<10, 9, 8, 9>>, <<10, 12, 11, 12>>, <<10, 9, 10, 10>>,
     <<NaN, NaN, NaN, NaN>>, <<NaN, 9, 10, NaN>>}

OhlcFiles ==
    UNION {{File(ALL_COLS, Rows(tss, os)) : os \in [1..Len(tss) -> OhlcValues]} :
           tss \in IncSeqs(CadenceTimes, MaxRows)}

(* Files in any order, with repeated and unparseable timestamps *)
DupRows == {<<ts, c>> : ts \in {NaT, Mon0000, Mon0000 + 60}, c \in {10, 11}}

DupFiles ==
    {File(ALL_COLS, [i \in 1..Len(q) |-> Row(i, q[i][1], <<q[i][2], q[i][2], q[i][2], q[i][2]>>)]) :
        q \in SeqsUpTo(DupRows, MaxRows)}

(* Long files at nominal cadence made of segments of constant close, or of *)
(* bars without prices                                                     *)
Segments ==
    {<<n, c>> : n \in {1, MAX_STALE_RUN - 1, MAX_STALE_RUN}, c \in {10, 11}}
        \cup {<<MAX_STALE_RUN, NaN>>}

SegCloses(segs) == Concat([k \in 1..Len(segs) |-> [i \in 1..segs[k][1] |-> segs[k][2]]])

SegFile(segs) ==
    LET cs == SegCloses(segs)
    IN  File(ALL_COLS,
             [i \in 1..Len(cs) |->
                 Row(i, Mon0000 + (i - 1) * EXPECTED_FREQ, <<cs[i], cs[i], cs[i], cs[i]>>)])

SegFiles == {SegFile(segs) : segs \in SeqsUpTo(Segments, MaxSegs) \ {<<>>}}

(* Files that lack the time column or a price column *)
DefectFiles ==
    {File(ALL_COLS \ {c}, Rows(<<Mon0000>>, <<o>>)) :
        c \in {"time", "open", "close"}, o \in {<<10, 10, 10, 10>>}}

Files == CalendarFiles \cup OhlcFiles \cup DupFiles \cup SegFiles \cup DefectFiles

---------------------------------------------------------------------------
(* The batch loop of main and the steps of clean_transform_pipeline.  The   *)
(* folders and their files are taken one after the other; what a file holds *)
(* is known when it is read.                                                *)

Empty == <<>>

Init ==
    /\ fi = 0
    /\ pc = "next_file"
    /\ cols = {}
    /\ raw = Empty
    /\ df = Empty
    /\ short_gaps = Empty
    /\ long_gaps = Empty
    /\ invalid_blocks = Empty
    /\ saved = 0
    /\ error = "none"
    /\ min_block = MIN_SHORT_GAP

Raise(e) ==
    /\ pc' = "aborted"
    /\ error' = e
    /\ UNCHANGED <<fi, cols, raw, df, short_gaps, long_gaps, invalid_blocks, saved, min_block>>

Step(to, new_df) ==
    /\ pc' = to
    /\ df' = new_df
    /\ UNCHANGED <<fi, cols, raw, short_gaps, long_gaps, invalid_blocks, saved, error, min_block>>

(* for file_path in files: the file name yields the pair name *)
NextFile ==
    /\ pc = "next_file"
    /\ fi < MaxFiles
    /\ fi' = fi + 1
    /\ pc' = "read_csv"
    /\ UNCHANGED <<cols, raw, df, short_gaps, long_gaps, invalid_blocks, saved, error, min_block>>

(* neither regular expression matches the file name: m is None *)
NameFail ==
    /\ pc = "next_file"
    /\ fi < MaxFiles
    /\ fi' = fi + 1
    /\ pc' = "aborted"
    /\ error' = "AttributeError"
    /\ UNCHANGED <<cols, raw, df, short_gaps, long_gaps, invalid_blocks, saved, min_block>>

(* both loops are exhausted *)
Finish ==
    /\ pc = "next_file"
    /\ pc' = "done"
    /\ UNCHANGED <<fi, cols, raw, df, short_gaps, long_gaps, invalid_blocks, saved, error, min_block>>

(* pd.read_csv keeps the wanted columns the file has *)
ReadCsv ==
    /\ pc = "read_csv"
    /\ \E f \in Files :
        /\ cols' = f.cols
        /\ raw' = f.rows
        /\ df' = f.rows
    /\ pc' = "normalize"
    /\ UNCHANGED <<fi, short_gaps, long_gaps, invalid_blocks, saved, error, min_block>>

Normalize ==
    /\ pc = "normalize"
    /\ "time" \in cols
    /\ \E s \in ensure_datetime_utc(df) : Step("session", s)

NormalizeFail ==
    /\ pc = "normalize"
    /\ "time" \notin cols
    /\ Raise("KeyError")

SessionFilter ==
    /\ pc = "session"
    /\ Step("dedup", IF APPLY_FX_SESSION_FILTER THEN fx_session_filter_utc(df) ELSE df)

Dedup ==
    /\ pc = "dedup"
    /\ Step("sanity", drop_duplicate_timestamps(df))

Sanity ==
    /\ pc = "sanity"
    /\ OHLC_COLS \subseteq cols
    /\ Step("stale", ohlc_sanity_filter(df))

SanityFail ==
    /\ pc = "sanity"
    /\ ~(OHLC_COLS \subseteq cols)
    /\ Raise("KeyError")

Stale ==
    /\ pc = "stale"
    /\ Step("short_gaps",
            IF "close" \notin cols THEN df ELSE remove_stale_quotes(df, MAX_STALE_RUN))

ShortGaps ==
    /\ pc = "short_gaps"
    /\ \E s \in SortOutcomes(df) :
        short_gaps' = detect_missing_periods(s, MIN_SHORT_GAP, MAX_SHORT_GAP)
    /\ pc' = "long_gaps"
    /\ UNCHANGED <<fi, cols, raw, df, long_gaps, invalid_blocks, saved, error, min_block>>

LongGaps ==
    /\ pc = "long_gaps"
    /\ \E s \in SortOutcomes(df) :
        long_gaps' = detect_missing_periods(s, MIN_LONG_GAP, MAX_LONG_GAP)
    /\ pc' = "invalid_blocks"
    /\ UNCHANGED <<fi, cols, raw, df, short_gaps, invalid_blocks, saved, error, min_block>>

InvalidBlocks ==
    /\ pc = "invalid_blocks"
    /\ \E s \in SortOutcomes(df) :
        invalid_blocks' = detect_invalid_blocks(s, min_block)
    /\ pc' = "save"
    /\ UNCHANGED <<fi, cols, raw, df, short_gaps, long_gaps, saved, error, min_block>>

(* the four to_parquet calls; the next iteration rebinds every local *)
Save ==
    /\ pc = "save"
    /\ saved' = saved + 1
    /\ pc' = "next_file"
    /\ cols' = {}
    /\ raw' = Empty
    /\ df' = Empty
    /\ short_gaps' = Empty
    /\ long_gaps' = Empty
    /\ invalid_blocks' = Empty
    /\ UNCHANGED <<fi, error, min_block>>

Next ==
    \/ NextFile
    \/ NameFail
    \/ Finish
    \/ ReadCsv
    \/ Normalize
    \/ NormalizeFail
    \/ SessionFilter
    \/ Dedup
    \/ Sanity
    \/ SanityFail
    \/ Stale
    \/ ShortGaps
    \/ LongGaps
    \/ InvalidBlocks
    \/ Save

Spec == Init /\ [][Next]_vars

---------------------------------------------------------------------------
(* Vocabulary of the properties *)

Lines(d) == {d[i].line : i \in 1..Len(d)}

PosOf(d, line) == CHOOSE i \in 1..Len(d) : d[i].line = line

(* e holds the rows kept of d, and only those, in d's order *)
IsSelection(d, e, kept) ==
    /\ Range(e) = kept
    /\ Len(e) = Cardinality(Range(e))
    /\ \A k \in 2..Len(e) : PosOf(d, e[k - 1].line) < PosOf(d, e[k].line)

RECURSIVE SumOver(_, _, _)
SumOver(f, lo, hi) ==
    IF lo > hi THEN 0
    ELSE IF lo = hi THEN f[lo]
    ELSE LET mid == (lo + hi) \div 2
         IN  SumOver(f, lo, mid) + SumOver(f, mid + 1, hi)

(* the row of the current file at instant t was handed to the row filters: *)
(* it has a parsed, in-session timestamp that no other row of the file has *)
ReachesValidator(i) ==
    /\ raw[i].ts # NaT
    /\ APPLY_FX_SESSION_FILTER => session_mask(raw[i].ts)
    /\ \A j \in 1..Len(raw) : j # i => raw[j].ts # raw[i].ts

InBlock(t, b) == b.start <= t /\ t <= b.end

---------------------------------------------------------------------------
(* C1: the invalid-block detector reads the series as it was before row   *)
(* removal, so every zero-valued bar that reached the row filters lies in *)
(* a reported invalid block.                                              *)
C1_ZeroBarsReported ==
    pc = "save" =>
        \A i \in 1..Len(raw) :
            (ReachesValidator(i) /\ invalid_zero(raw[i])) =>
                \E k \in 1..Len(invalid_blocks) : InBlock(raw[i].ts, invalid_blocks[k])

---------------------------------------------------------------------------
(* Maximal runs of consecutive rows with identical close, as pairs of the *)
(* positions of their first and last row; a missing close is identical to *)
(* no close                                                               *)
RunStarts(d) == {a \in 1..Len(d) : a = 1 \/ ~Eq(d[a].close, d[a - 1].close)}

MaximalRuns(d) ==
    LET starts == RunStarts(d)
        last(a) == CHOOSE b \in a..Len(d) :
                       /\ b = Len(d) \/ (b + 1) \in starts
                       /\ \A k \in (a + 1)..b : k \notin starts
    IN  {<<a, last(a)>> : a \in starts}

StaleStep == pc = "stale" /\ pc' = "short_gaps"

---------------------------------------------------------------------------
(* Adjacent pairs of the cleaned series, named by the position of their   *)
(* later row, and the gaps a table holds for a pair                       *)
Pairs(d) == 2..Len(d)
Diff(d, i) == d[i].ts - d[i - 1].ts

GapsOfPair(gaps, d, i) ==
    {k \in 1..Len(gaps) : gaps[k].gap_start = d[i - 1].ts + EXPECTED_FREQ}

GapTableIs(gaps, d, min_gap, max_gap) ==
    LET banded == {i \in Pairs(d) : min_gap < Diff(d, i) /\ Diff(d, i) <= max_gap}
    IN  /\ Len(gaps) = Cardinality(banded)
        /\ \A i \in banded :
            \E k \in 1..Len(gaps) :
                /\ GapsOfPair(gaps, d, i) = {k}
                /\ gaps[k].gap_start = d[i - 1].ts + EXPECTED_FREQ
                /\ gaps[k].gap_end = d[i].ts - EXPECTED_FREQ
                /\ gaps[k].gap_duration_min = Max2(0, (Diff(d, i) \div EXPECTED_FREQ) - 1)

AfterShortGaps == pc \in {"long_gaps", "invalid_blocks", "save"}
AfterLongGaps == pc \in {"invalid_blocks", "save"}

GapMinutes(gaps) == SumOver([k \in 1..Len(gaps) |-> gaps[k].gap_duration_min], 1, Len(gaps))

Covered(d) ==
    (GapMinutes(short_gaps) + GapMinutes(long_gaps)) * EXPECTED_FREQ
        + (Len(d) - 1) * EXPECTED_FREQ

Unclassified(d) ==
    SumOver([i \in Pairs(d) |->
                IF Diff(d, i) > MAX_LONG_GAP THEN Diff(d, i) - EXPECTED_FREQ ELSE 0],
            2, Len(d))

CoverageIdentity(d) == Covered(d) = (d[Len(d)].ts - d[1].ts) - Unclassified(d)

OnCadence(d) == \A i \in 1..Len(d) : d[i].ts % EXPECTED_FREQ = 0

(* C5 as claimed: for every cleaned series of at least one row the gap    *)
(* minutes of both tables plus N - 1 intervals equal the range of the     *)
(* series less, for each pair wider than 10 days, its width beyond one    *)
(* interval.                                                              *)
C5_CoverageAnySeries ==
    (pc = "save" /\ Len(df) >= 1) => CoverageIdentity(df)

(* C5 as amended: the identity holds when every timestamp of the cleaned  *)
(* series is a whole multiple of the nominal interval.                    *)
C5_CoverageOnCadence ==
    (pc = "save" /\ Len(df) >= 1 /\ OnCadence(df)) => CoverageIdentity(df)

(* a series on cadence with a short gap, a long gap and a pair wider than 10 days *)
C5_Witness ==
    /\ pc = "save"
    /\ OnCadence(df)
    /\ Len(short_gaps) >= 1
    /\ Len(long_gaps) >= 1
    /\ \E i \in Pairs(df) : Diff(df, i) > MAX_LONG_GAP

---------------------------------------------------------------------------
SessionStep == pc = "session" /\ pc' = "dedup"

InSession(ts) ==
    \/ weekday(ts) \in {0, 1, 2, 3}
    \/ weekday(ts) = 4 /\ (hour(ts) < 22 \/ (hour(ts) = 22 /\ minute(ts) = 0))
    \/ weekday(ts) = 6 /\ hour(ts) >= 22

(* C6: fx_session_filter_utc keeps a row iff its timestamp is on Monday   *)
(* to Thursday, on Friday up to and including 22:00, or on Sunday from    *)
(* 22:00; the rows kept stay in their order.                              *)
C6_SessionFilterKeepsSession ==
    [][SessionStep => IsSelection(df, df', {r \in Range(df) : InSession(r.ts)})]_vars

(* Friday 22:00 and Sunday 22:00 are kept, Friday 22:01 and Sunday 21:59 dropped *)
C6_Witness ==
    /\ pc = "dedup"
    /\ {raw[i].ts : i \in 1..Len(raw)} = {Fri2200, Fri2201, Sun2159, Sun2200}
    /\ Len(df) = 2
    /\ df[1].ts = Fri2200
    /\ df[2].ts = Sun2200

(* C7: a file that lacks the time column or a price column is skipped and *)
(* the batch goes on: a schema defect never ends the run.                 *)
C7_SchemaDefectNeverEndsRun ==
    ~(pc = "aborted" /\ error = "KeyError")

(* C9: after ensure_datetime_utc and drop_duplicate_timestamps the series *)
(* has strictly increasing timestamps, and the row kept for a timestamp   *)
(* is the one that comes last in the file among the rows that have it.    *)
C9_LastInFileKept ==
    pc = "sanity" =>
        /\ StrictlyIncreasing(df)
        /\ \A k \in 1..Len(df) :
            \A i \in 1..Len(raw) : raw[i].ts = df[k].ts => raw[i].line <= df[k].line

SanityStep == pc = "sanity" /\ pc' = "stale"

AllPresent(r) == \A x \in Range(Ohlc(r)) : x # NaN

Malformed(r) ==
    \/ \E x \in Range(Ohlc(r)) : x = 0
    \/ \E x \in Range(Ohlc(r)) : x < 0
    \/ r.high < Max2(r.open, r.close)
    \/ r.low > Min2(r.open, r.close)
    \/ r.high < r.low

(* C10: ohlc_sanity_filter removes a row with four present fields iff a   *)
(* field is zero or negative, high < max(open, close), low > min(open,    *)
(* close) or high < low; the rows kept stay in their order.               *)
C10_SanityFilterRemovesMalformed ==
    [][SanityStep =>
        /\ \A r \in Range(df) : AllPresent(r) => (r \in Range(df') <=> ~Malformed(r))
        /\ IsSelection(df, df', Range(df) \cap Range(df'))]_vars

(* the bar 1.0/1.0/1.0/1.0 is kept, the bars with high 0.9 under low 1.0 *)
(* and with a zero field are removed                                     *)
C10_Witness ==
    /\ pc = "stale"
    /\ Len(raw) = 3
    /\ \A i \in 1..3 : ReachesValidator(i)
    /\ {Ohlc(raw[i]) : i \in 1..3} = {<<10, 10, 10, 10>>, <<10, 9, 10, 10>>, <<0, 10, 0, 10>>}
    /\ Len(df) = 1
    /\ Ohlc(df[1]) = <<10, 10, 10, 10>>

---------------------------------------------------------------------------
(* The frame each step of clean_transform_pipeline is handed *)
NonDecreasing(d) == \A i \in 2..Len(d) : d[i - 1].ts <= d[i].ts

AtSessionFilter == pc = "session"

AtStepAfterDedup == pc \in {"sanity", "stale", "short_gaps", "long_gaps", "invalid_blocks"}

SharesTimestamp(d) ==
    \E i, j \in 1..Len(d) : i # j /\ d[i].ts # NaT /\ d[i].ts = d[j].ts

(* C11 as claimed: the session filter, the sanity filter, the stale-quote *)
(* removal, the gap detection and the invalid-block detection are each    *)
(* handed a series whose timestamps are strictly increasing, so free of   *)
(* duplicates, whatever the raw input.                                    *)
C11_EveryStepSeesStrictSeries ==
    (AtSessionFilter \/ AtStepAfterDedup) => StrictlyIncreasing(df)

(* C11 as amended: the sanity filter, the stale-quote removal, both gap   *)
(* detections and the invalid-block detection are handed a series with    *)
(* strictly increasing timestamps; the session filter, which runs before  *)
(* the de-duplication, is handed a series in time order that still holds  *)
(* every row of a repeated timestamp.                                     *)
C11_StepsAfterDedupSeeStrictSeries ==
    /\ AtStepAfterDedup => StrictlyIncreasing(df)
    /\ AtSessionFilter =>
        /\ NonDecreasing(df)
        /\ Lines(df) = {raw[i].line : i \in {k \in 1..Len(raw) : raw[k].ts # NaT}}

(* a file that repeats a timestamp has passed every step and still holds  *)
(* two bars                                                               *)
C11_Witness ==
    /\ pc = "save"
    /\ SharesTimestamp(raw)
    /\ Len(df) >= 2
    /\ Len(df) < Cardinality({i \in 1..Len(raw) : raw[i].ts # NaT})

---------------------------------------------------------------------------
(* A gap row that spans a closed interval of missing nominal instants of  *)
(* the series d and counts them                                           *)
CountsMissingInstants(g, d) ==
    /\ g.gap_start <= g.gap_end
    /\ g.gap_duration_min >= 1
    /\ (g.gap_duration_min - 1) * EXPECTED_FREQ = g.gap_end - g.gap_start
    /\ g.gap_start % EXPECTED_FREQ = 0
    /\ \A i \in 1..Len(d) : ~(g.gap_start <= d[i].ts /\ d[i].ts <= g.gap_end)

(* C12: when every timestamp of the strictly increasing series is a whole *)
(* multiple of the nominal interval, every gap of the short and of the    *)
(* long table has gap_start <= gap_end and a duration of                  *)
(* (gap_end - gap_start) / interval + 1 >= 1, the number of nominal       *)
(* instants in [gap_start, gap_end], none of which the series holds.      *)
C12_GapCountsMissingInstants ==
    (StrictlyIncreasing(df) /\ OnCadence(df)) =>
        /\ AfterShortGaps =>
                \A k \in 1..Len(short_gaps) : CountsMissingInstants(short_gaps[k], df)
        /\ AfterLongGaps =>
                \A k \in 1..Len(long_gaps) : CountsMissingInstants(long_gaps[k], df)

(* a series on cadence with a gap of a single missing minute, where       *)
(* gap_start = gap_end, and a gap of the long band                        *)
C12_Witness ==
    /\ pc = "save"
    /\ OnCadence(df)
    /\ \E k \in 1..Len(short_gaps) :
            /\ short_gaps[k].gap_start = short_gaps[k].gap_end
            /\ short_gaps[k].gap_duration_min = 1
    /\ \E k \in 1..Len(long_gaps) : long_gaps[k].gap_duration_min > MAX_SHORT_GAP \div EXPECTED_FREQ

---------------------------------------------------------------------------
(* detect_invalid_blocks on its own: called with a minimum duration of    *)
(* one to three minutes on a series in time order whose bars may be       *)
(* zero-valued or missing.                                                *)

InitBlocks ==
    /\ fi = 0
    /\ pc = "blocks_call"
    /\ cols = ALL_COLS
    /\ raw \in {f.rows : f \in OhlcFiles}
    /\ df = raw
    /\ short_gaps = Empty
    /\ long_gaps = Empty
    /\ invalid_blocks = Empty
    /\ saved = 0
    /\ error = "none"
    /\ min_block \in {1 * Minute, 2 * Minute, 3 * Minute}

CallBlocks ==
    /\ pc = "blocks_call"
    /\ \E s \in SortOutcomes(df) :
        invalid_blocks' = detect_invalid_blocks(s, min_block)
    /\ pc' = "blocks_done"
    /\ UNCHANGED <<fi, cols, raw, df, short_gaps, long_gaps, saved, error, min_block>>

NextBlocks == CallBlocks

SpecBlocks == InitBlocks /\ [][NextBlocks]_vars

Flagged(r) == \E x \in Range(Ohlc(r)) : x = NaN \/ x = 0

BlocksAt(t) == {k \in 1..Len(invalid_blocks) : InBlock(t, invalid_blocks[k])}

(* C8: adjacent rows share a block iff they are on one calendar day, one  *)
(* interval apart and flagged alike; the emitted blocks do not overlap    *)
(* and come in start order; every flagged row lies in exactly one block,  *)
(* emitted or left out as shorter than the minimum duration.              *)
C8_BlocksPartitionRows ==
    pc = "blocks_done" =>
        /\ \A i \in 2..Len(df) :
            block_id(df, i) = block_id(df, i - 1) <=>
                /\ floorD(df[i].ts) = floorD(df[i - 1].ts)
                /\ df[i].ts - df[i - 1].ts = EXPECTED_FREQ
                /\ Flagged(df[i]) = Flagged(df[i - 1])
        /\ \A k \in 1..Len(invalid_blocks) :
            invalid_blocks[k].start <= invalid_blocks[k].end
        /\ \A k \in 2..Len(invalid_blocks) :
            invalid_blocks[k - 1].end < invalid_blocks[k].start
        /\ \A i \in 1..Len(df) :
            Flagged(df[i]) =>
                \/ Cardinality(BlocksAt(df[i].ts)) = 1
                \/ /\ BlocksAt(df[i].ts) = {}
                   /\ block_table(df)[block_id(df, i)].duration < min_block
        /\ \A i, j \in 1..Len(df) :
            (Flagged(df[i]) /\ Flagged(df[j]) /\ BlocksAt(df[i].ts) # {}) =>
                (BlocksAt(df[i].ts) = BlocksAt(df[j].ts) <=> block_id(df, i) = block_id(df, j))

(* three flagged bars, zero-valued and missing, one minute apart across *)
(* midnight, minimum 2 minutes: the block of two rows is emitted, the   *)
(* block of one is left out                                             *)
C8_Witness ==
    /\ pc = "blocks_done"
    /\ Len(df) = 3
    /\ \E i \in 1..3 : invalid_zero(df[i])
    /\ \E i \in 1..3 : IsNa(df[i].close)
    /\ df[3].ts = Tue0000
    /\ min_block = 2 * Minute
    /\ Len(invalid_blocks) = 1
    /\ invalid_blocks[1].n_rows = 2
    /\ BlocksAt(Tue0000) = {}

===========================================================================
